---- MODULE Spec2Model ----
(***************************************************************************)
(* Model of the HTTP transport of the Asaas SDK: HttpClient.request        *)
(* (src/asaas/http_client.py) with the urllib3 Retry policy configured in  *)
(* HttpClient.__init__, and raise_for_status (src/asaas/exceptions.py).    *)
(*                                                                         *)
(* One call of request() is a run idle -> sending -> done; every step of   *)
(* "sending" is one attempt on the wire, answered by the environment with  *)
(* a response (status, Retry-After header, body) or a transport failure.   *)
(***************************************************************************)
EXTENDS Integers, Sequences, FiniteSets, TLC

(* ---------------------------- bounds ----------------------------------- *)
MaxRetriesBound == 2      \* max_retries ranges over 0..MaxRetriesBound
MaxErrors == 2            \* longest "errors" list in a response body

(* ------------------------- configuration ------------------------------- *)
Methods == {"GET", "POST", "PUT", "DELETE", "HEAD", "OPTIONS", "PATCH"}

allowed_methods == {"GET", "PUT", "DELETE", "HEAD", "OPTIONS"}

\* the force list with 503 left out
status_forcelist_no503 == {500, 502, 504}

status_forcelist == {500, 502, 503, 504}

\* urllib3 Retry default (respect_retry_after_header=True is not overridden)
RETRY_AFTER_STATUS_CODES == {413, 429, 503}

Statuses == {100, 200, 204, 299, 300, 304, 400, 401, 403, 404, 413, 429,
             500, 501, 502, 503, 504}

(* ----------------------------- bodies ---------------------------------- *)
\* "none" stands for a key that the sub-error object does not have
SubErrors == { [code |-> "invalid_value", description |-> "bad"],
               [code |-> "not_found",     description |-> "none"],
               [code |-> "none",          description |-> "x"] }

ErrLists == UNION { [1..n -> SubErrors] : n \in 0..MaxErrors }

\* a parsed value: t is its type, ek the shape of its "errors" member, es the
\* sub-errors when that member is a list, raw the text under the "raw" key
Json(t, ek, es, raw) == [t |-> t, ek |-> ek, es |-> es, raw |-> raw]

NoJson == Json("none", "absent", <<>>, "")

JsonValues == { Json("object", "absent", <<>>, ""),      \* {"id": ...}
                Json("object", "null", <<>>, ""),        \* {"errors": null}
                Json("object", "string", <<>>, ""),      \* {"errors": "boom"}
                Json("array", "absent", <<>>, ""),       \* [1]
                Json("string", "absent", <<>>, "") }     \* "Bad Gateway"
              \cup { Json("object", "list", es, "") : es \in ErrLists }

\* bodies that are not JSON documents
Texts == {"<html>502</html>", "upstream error"}

\* response.content / response.text / what response.json() would give
Content(kind, text, value) == [kind |-> kind, text |-> text, value |-> value]
Unread == Content("unread", "", NoJson)

Contents == { Content("empty", "", NoJson) }
            \cup { Content("text", t, NoJson) : t \in Texts }
            \cup { Content("json", "", j) : j \in JsonValues }

EmptyDict == Json("empty_object", "absent", <<>>, "")     \* {}
RawDict(text) == Json("raw", "absent", <<>>, text)        \* {"raw": response.text}

(* ----------------------------- events ---------------------------------- *)
Event(kind, status, ra, content) ==
    [kind |-> kind, status |-> status, retry_after |-> ra, content |-> content]

NoEvent == Event("none", 0, FALSE, Unread)

TransportErrors == {"connect_timeout", "connect_error",
                    "read_timeout", "connection_reset"}

(* ----------------------------- outcome --------------------------------- *)
Message(http, parts) == [http |-> http, parts |-> parts]

Outcome(kind, exc, status_code, errors, message, value) ==
    [kind |-> kind, exc |-> exc, status_code |-> status_code,
     errors |-> errors, message |-> message, value |-> value]

NoOutcome == Outcome("none", "none", 0, <<>>, Message(0, <<>>), EmptyDict)

Return(body) == Outcome("return", "none", 0, <<>>, Message(0, <<>>), body)

\* an exception without status_code / errors attributes
Raise(exc) == Outcome("raise", exc, 0, <<>>, Message(0, <<>>), EmptyDict)

(* ------------------- exceptions.py: error taxonomy --------------------- *)
APIErrorKinds == {"AsaasAPIError", "AsaasValidationError",
                  "AsaasAuthenticationError", "AsaasNotFoundError",
                  "AsaasRateLimitError"}

\* _STATUS_CODE_MAP.get(status_code, AsaasAPIError)
STATUS_CODE_MAP(status_code) ==
    CASE status_code = 400 -> "AsaasValidationError"
      [] status_code = 401 -> "AsaasAuthenticationError"
      [] status_code = 404 -> "AsaasNotFoundError"
      [] status_code = 429 -> "AsaasRateLimitError"
      [] OTHER -> "AsaasAPIError"

\* f"[{e.get('code', 'unknown')}] {e.get('description', '')}"
MessagePart(e) ==
    [code |-> IF e.code = "none" THEN "unknown" ELSE e.code,
     description |-> IF e.description = "none" THEN "" ELSE e.description]

\* AsaasAPIError.__init__: self.errors = errors or []
AsaasAPIError(exc_class, message, status_code, errors) ==
    Outcome("raise", exc_class, status_code, errors, message, EmptyDict)

\* the success range with an inclusive upper end
Is2xx_inclusive(status_code) == 200 <= status_code /\ status_code <= 300

Is2xx(status_code) == 200 <= status_code /\ status_code < 300

\* raise_for_status(status_code, body), followed by "return body"
raise_for_status(status_code, body) ==
    IF Is2xx(status_code) THEN Return(body)
    ELSE IF body.t \in {"array", "string"}
         THEN Raise("AttributeError")          \* (body or {}).get on a non-dict
    ELSE IF body.ek = "string"
         THEN Raise("AttributeError")          \* e.get on the characters of a str
    ELSE IF body.ek = "list" /\ Len(body.es) > 0
         THEN AsaasAPIError(STATUS_CODE_MAP(status_code),
                  Message(0, [i \in 1..Len(body.es) |-> MessagePart(body.es[i])]),
                  status_code, body.es)
    ELSE AsaasAPIError(STATUS_CODE_MAP(status_code),
                  Message(status_code, <<>>), status_code, <<>>)

(* ------------------- http_client.py: HttpClient.request ---------------- *)
\* the ValueError of response.json() swallowed, body left at {}
ParseBody_swallow(content) ==
    IF content.kind = "json" THEN content.value ELSE EmptyDict

\* body = {} ; if response.content: try response.json() except ValueError: raw
ParseBody(content) ==
    CASE content.kind = "empty" -> EmptyDict
      [] content.kind = "text"  -> RawDict(content.text)
      [] OTHER -> content.value

\* the except clauses around self._session.request: Timeout is tested first,
\* then ConnectionError; any other exception propagates unchanged
ExceptClause(requests_exc) ==
    IF requests_exc \in {"ConnectTimeout", "ReadTimeout"}
    THEN Raise("AsaasTimeoutError")
    ELSE IF requests_exc = "ConnectionError"
    THEN Raise("AsaasConnectionError")
    ELSE Raise(requests_exc)

(* --------------- Retry(total=max_retries, ...) as mounted --------------- *)
_is_method_retryable(m) == m \in allowed_methods

is_retry(m, status_code, has_retry_after, tot) ==
    /\ _is_method_retryable(m)
    /\ \/ status_code \in status_forcelist
       \/ (tot # 0 /\ has_retry_after /\ status_code \in RETRY_AFTER_STATUS_CODES)

\* exhaustion noticed one retry late
is_exhausted_late(tot) == tot < -1

is_exhausted(tot) == tot < 0

\* the requests exception raised for a MaxRetryError, by its reason
MaxRetryErrorClass(kind) ==
    CASE kind = "response" -> "RetryError"            \* reason ResponseError
      [] kind = "connect_timeout" -> "ConnectTimeout"
      [] OTHER -> "ConnectionError"

\* the requests exception raised for an error re-raised without retry
ReraisedClass(kind) ==
    IF kind = "read_timeout" THEN "ReadTimeout" ELSE "ConnectionError"

(* ------------------ http_client.py: _clean_params ---------------------- *)
\* Python values that a query parameter can carry
PyNone == "py:None"
ParamValues == {PyNone, "py:False", "py:0", "str:", "str:John"}
ParamKeys == {"name", "email", "cpfCnpj"}

\* a dict is a function on the set of its keys; params=None is NoDict
Dicts == UNION { [ks -> ParamValues] : ks \in SUBSET ParamKeys }
NoDict == [is_none |-> TRUE, d |-> <<>>]
Dict(d) == [is_none |-> FALSE, d |-> d]

\* the comprehension filtering on truthiness instead of "is not None"
_clean_params_truthy(params) ==
    IF params.is_none THEN NoDict
    ELSE Dict([k \in {x \in DOMAIN params.d :
                         params.d[x] \notin {PyNone, "py:False", "py:0", "str:"}}
                 |-> params.d[k]])

\* {k: v for k, v in params.items() if v is not None}, None for None
_clean_params(params) ==
    IF params.is_none THEN NoDict
    ELSE Dict([k \in {x \in DOMAIN params.d : params.d[x] # PyNone}
                 |-> params.d[k]])

(* ------------------------- pagination.py -------------------------------- *)
MaxPages == 3             \* page requests issued by one iteration
MaxMaxItems == 2          \* max_items ranges over None and 0..MaxMaxItems

Absent == -1              \* marks a key that the body does not have
NoMax == -1               \* max_items=None

\* the "data" lists a server page can carry
PageDatas == { <<>>, <<"cus_1">>, <<"cus_1", "cus_2">> }

\* a list body as parsed JSON; has_data says whether the "data" key is there
Body(hasMore, totalCount, lim, off, has_data, data) ==
    [hasMore |-> hasMore, totalCount |-> totalCount, limit |-> lim,
     offset |-> off, has_data |-> has_data, data |-> data]

\* (totalCount, offset) of the bodies explored: each key present and absent
CountAndOffset == { <<Absent, 2>>, <<1, Absent>> }

PageBodies ==
    { Body(hm, co[1], l, co[2], TRUE, d) :
        hm \in {"absent", "true", "false"}, co \in CountAndOffset,
        l \in {Absent, 1, 2}, d \in PageDatas }
    \cup
    { Body(hm, co[1], l, co[2], FALSE, <<>>) :
        hm \in {"absent", "true", "false"}, co \in CountAndOffset,
        l \in {Absent, 1, 2} }

NoBody == Body("absent", Absent, Absent, Absent, FALSE, <<>>)

Page(has_more, total_count, lim, off, data) ==
    [has_more |-> has_more, total_count |-> total_count, limit |-> lim,
     offset |-> off, data |-> data]

NoPage == Page(FALSE, 0, 0, 0, <<>>)

\* the parse with 100 as the default of limit
PaginatedResponse_limit100(raw) ==
    Page(raw.hasMore = "true",
         IF raw.totalCount = Absent THEN 0 ELSE raw.totalCount,
         IF raw.limit = Absent THEN 100 ELSE raw.limit,
         IF raw.offset = Absent THEN 0 ELSE raw.offset,
         IF raw.has_data THEN raw.data ELSE <<>>)

\* PaginatedResponse.__init__(raw): raw.get(key, default) for the five keys
PaginatedResponse(raw) ==
    Page(raw.hasMore = "true",
         IF raw.totalCount = Absent THEN 0 ELSE raw.totalCount,
         IF raw.limit = Absent THEN 10 ELSE raw.limit,
         IF raw.offset = Absent THEN 0 ELSE raw.offset,
         IF raw.has_data THEN raw.data ELSE <<>>)

\* what the iteration has received so far, one entry per page
Got(pg) == [has_more |-> pg.has_more, limit |-> pg.limit, data |-> pg.data]

\* query parameters of a list call: offset and limit are integers (Absent
\* when the key is missing), rest holds the other keys
Query(off, lim, rest) == [offset |-> off, limit |-> lim, rest |-> rest]

NoQuery == Query(Absent, Absent, <<>>)

\* dict(params or {})
CopyParams(p) == IF p.is_none THEN NoQuery ELSE p.q

\* the caller's entries written over the paging values
page_params_callerWins(base, off, lim) ==
    Query(IF base.offset = Absent THEN off ELSE base.offset,
          IF base.limit = Absent THEN lim ELSE base.limit, base.rest)

\* {**base_params, "offset": offset, "limit": limit}
page_params(base, off, lim) == Query(off, lim, base.rest)

\* the max_items test with a strict comparison
StopAfterYield_strict(mx, n) == mx # NoMax /\ n > mx

\* max_items is not None and yielded >= max_items
StopAfterYield(mx, n) == mx # NoMax /\ n >= mx

\* the loop left one item early
PageExhausted_early(i, data) == i + 1 >= Len(data)

\* the loop left before the second item of a page
PageExhausted_second(i, data) == i >= Len(data) \/ i >= 1

\* the for loop over page.data has no item left
PageExhausted(i, data) == i >= Len(data)

\* the offset advanced by the requested page size
NextOffset_requested(off, pg, lim) == off + lim

\* offset += page.limit
NextOffset(off, pg, lim) == off + pg.limit

\* has_more never consulted
Continue_always(pg, off) == TRUE

\* continuation decided by comparing counts
Continue_byCount(pg, off) == off + Len(pg.data) < pg.total_count

\* "if not page.has_more: return" falls through
Continue(pg, off) == pg.has_more

\* an argument left at None in a list(...) call
NoneArg == -2

\* _set(d, key, value) for the integer keys: the key is set unless value is None
_set(value) == IF value = NoneArg THEN Absent ELSE value

\* the dict built without the offset entry
ListParams_noOffset(off, lim, name) ==
    Query(Absent, _set(lim),
          IF name = PyNone THEN <<>> ELSE [name |-> name])

\* the params dict that Customers.list builds before calling self._list
ListParams(off, lim, name) ==
    Query(_set(off), _set(lim),
          IF name = PyNone THEN <<>> ELSE [name |-> name])

\* what http.get can raise into the caller
FetchErrors == {"AsaasAPIError", "AsaasTimeoutError",
                "AsaasConnectionError", "RetryError"}

\* the (params, limit) arguments of the list_all calls that are explored
PaginateCalls ==
    { [params |-> [is_none |-> TRUE, q |-> NoQuery], limit |-> 2],
      [params |-> [is_none |-> FALSE, q |-> Query(7, 9, [name |-> "str:John"])],
       limit |-> 3] }

MaxStops == 1             \* pulls followed after the iterator has ended
MaxTotal == 3             \* records a consistent server holds
MaxServerLimit == 2       \* page size a consistent server applies

\* a server that holds the records 0 .. total-1 in a stable order and
\* answers every page request with at most lim of them
Server(tot, lim) == [total |-> tot, limit |-> lim]
NoServer == Server(0, 0)
Servers == { Server(tot, lim) : tot \in 0..MaxTotal, lim \in 1..MaxServerLimit }

\* the page such a server returns for the query q
ServerPage(srv, q) ==
    LET rest == srv.total - q.offset
        n == IF rest <= 0 THEN 0 ELSE IF rest < srv.limit THEN rest ELSE srv.limit
    IN Body(IF q.offset + n < srv.total THEN "true" ELSE "false",
            srv.total, srv.limit, q.offset, TRUE,
            [k \in 1..n |-> q.offset + k - 1])

(* --------------------- http_client.py: headers -------------------------- *)
\* a header dict is a function from header names (case-folded, as the
\* session's CaseInsensitiveDict compares them) to values; PyNone is None
NoHeaders == <<>>

\* {**a, **b}: the entries of b win
Updated(a, b) ==
    [k \in DOMAIN a \cup DOMAIN b |-> IF k \in DOMAIN b THEN b[k] ELSE a[k]]

\* the headers of a fresh requests.Session() after headers.update({...})
SessionHeaders(key) ==
    [access_token |-> key, Content_Type |-> "application/json",
     Accept |-> "application/json", User_Agent |-> "asaas-python-sdk/1.0.0",
     Accept_Encoding |-> "gzip, deflate", Connection |-> "keep-alive"]

\* the arguments of one request(...) call
Args(m, js, dt, fl, hd) ==
    [method |-> m, json |-> js, data |-> dt, files |-> fl, headers |-> hd]

NoArgs == Args("", PyNone, PyNone, PyNone, PyNone)

JsonArgs == {PyNone, "{json}"}
DataArgs == {PyNone, "{form}"}
FilesArgs == {PyNone, "{}", "{file}"}
HeaderArgs ==
    { [is_none |-> TRUE, d |-> NoHeaders],
      [is_none |-> FALSE, d |-> NoHeaders],
      [is_none |-> FALSE, d |-> [X_Extra |-> "1"]],
      [is_none |-> FALSE, d |-> [Accept |-> "text/csv"]],
      [is_none |-> FALSE, d |-> [access_token |-> PyNone]],
      [is_none |-> FALSE, d |-> [Content_Type |-> "text/plain"]] }

RequestArgs ==
    { Args(m, js, dt, fl, hd) : m \in {"GET", "POST"}, js \in JsonArgs,
                                dt \in DataArgs, fl \in FilesArgs,
                                hd \in HeaderArgs }

\* bool(files): None and {} are false
HasFiles(fl) == fl = "{file}"

\* req_headers built without the Content-Type: None entry for uploads
BuildReqHeaders_keepType(a) ==
    IF a.headers.is_none \/ a.headers.d = NoHeaders THEN NoHeaders
    ELSE a.headers.d

\* req_headers = {}; update(headers) if headers; Content-Type: None if files
BuildReqHeaders(a) ==
    LET h == IF a.headers.is_none \/ a.headers.d = NoHeaders THEN NoHeaders
             ELSE a.headers.d
    IN IF HasFiles(a.files) THEN Updated(h, [Content_Type |-> PyNone]) ELSE h

\* the json argument handed to the session although files are present
JsonPassed_always(a) == a.json

\* json=json if not files else None
JsonPassed(a) == IF HasFiles(a.files) THEN PyNone ELSE a.json

\* requests merge_setting without the session's defaults
merge_setting_requestOnly(req, ses) ==
    LET keep == { k \in DOMAIN req : req[k] # PyNone }
    IN [k \in keep |-> req[k]]

\* requests merge_setting(request.headers, session.headers): the request's
\* entries win and the entries that are None are removed
merge_setting(req, ses) ==
    LET m == Updated(ses, req)
        keep == { k \in DOMAIN m : m[k] # PyNone }
    IN [k \in keep |-> m[k]]

\* requests prepare_cookies: the jar's cookies become the Cookie header
prepare_cookies(h, jar) ==
    IF jar # {} /\ "Cookie" \notin DOMAIN h
    THEN Updated(h, [Cookie |-> jar]) ELSE h

\* requests prepare_body: (body kind, content type the encoder proposes)
prepare_body(js, dt, fl) ==
    IF HasFiles(fl) THEN [body |-> "multipart", ct |-> "multipart/form-data"]
    ELSE IF dt # PyNone
    THEN [body |-> "form", ct |-> "application/x-www-form-urlencoded"]
    ELSE IF js # PyNone
    THEN [body |-> "json", ct |-> "application/json"]
    ELSE [body |-> "none", ct |-> PyNone]

\* prepare_body's last step: the proposed content type is set only when the
\* headers have no Content-Type yet
WithContentType(h, ct) ==
    IF ct # PyNone /\ "Content_Type" \notin DOMAIN h
    THEN Updated(h, [Content_Type |-> ct]) ELSE h

\* what Session.request puts on the wire for one call
Prepared(a, rh, ses, jar) ==
    LET pb == prepare_body(JsonPassed(a), a.data, a.files)
    IN [headers |-> WithContentType(prepare_cookies(merge_setting(rh, ses), jar),
                                    pb.ct),
        body |-> pb.body]

NoWire == [headers |-> NoHeaders, body |-> "none"]

\* the path of the calls that are explored
RequestPath == "/v3/customers"

ParamArgs == {PyNone, "{name: John}"}

\* the static configuration of an HttpClient
Config(key, url, tmo, hdrs) ==
    [api_key |-> key, base_url |-> url, timeout |-> tmo, session_headers |-> hdrs]

\* the record of line 81 with the request headers added to it
LogBefore_withHeaders(cfg, a, prm) ==
    [at |-> "before", method |-> a.method, url |-> <<cfg.base_url, RequestPath>>,
     params |-> prm, json |-> a.json, status |-> 0,
     headers |-> cfg.session_headers]

\* logger.debug("%s %s params=%s json=%s", method, url, params, json)
LogBefore(cfg, a, prm) ==
    [at |-> "before", method |-> a.method, url |-> <<cfg.base_url, RequestPath>>,
     params |-> prm, json |-> a.json, status |-> 0, headers |-> NoHeaders]

\* logger.debug("%s %s -> %s (%.2fs)", method, url, status_code, elapsed);
\* the elapsed time is a measurement and not part of the content
LogAfter(cfg, a, status_code) ==
    [at |-> "after", method |-> a.method, url |-> <<cfg.base_url, RequestPath>>,
     params |-> PyNone, json |-> PyNone, status |-> status_code,
     headers |-> NoHeaders]

NoLog == [at |-> "never", method |-> "", url |-> <<>>, params |-> PyNone,
          json |-> PyNone, status |-> 0, headers |-> NoHeaders]

\* the configurations of the "asaas" logger: level above DEBUG (the default),
\* DEBUG with a working handler, DEBUG with a handler whose emit fails
LogConfigs == {"disabled", "enabled", "failing_handler"}

\* a logger whose handler failure leaves logger.debug as an exception
logger_debug_raising(config) ==
    [emits |-> config = "enabled", raises |-> config = "failing_handler"]

\* logging.Logger.debug: the record reaches the sink when the level is on;
\* a failure inside Handler.emit goes to Handler.handleError, not the caller
logger_debug(config) ==
    [emits |-> config = "enabled", raises |-> FALSE]

\* the other credential, for the client that differs only in api_key
TwinKey(key) == IF key = "key_a" THEN "key_b" ELSE "key_a"

Threads == {"t1", "t2"}

(* ----------------------------- client.py ------------------------------- *)
MaxCloses == 2            \* calls of close() that are followed

PRODUCTION_URL == "https://api.asaas.com"
SANDBOX_URL == "https://sandbox.asaas.com/api"

NoUrl == "py:None"        \* base_url=None

ApiKeys == {"", "key_a", "key_b"}
BaseUrlArgs == {NoUrl, "", "https://custom.api.com", "https://custom.api.com/"}

\* HttpClient.__init__: base_url.rstrip("/") on the URLs above
rstrip_slash(u) ==
    IF u = "https://custom.api.com/" THEN "https://custom.api.com" ELSE u

\* the sandbox flag taking precedence over the override
resolved_url_sandboxFirst(sb, url) ==
    IF sb THEN SANDBOX_URL
    ELSE IF url # NoUrl /\ url # "" THEN url ELSE PRODUCTION_URL

\* Asaas.__init__: base_url if base_url else (SANDBOX_URL if sandbox else
\* PRODUCTION_URL); None and "" are both false
resolved_url(sb, url) ==
    IF url # NoUrl /\ url # "" THEN url
    ELSE IF sb THEN SANDBOX_URL ELSE PRODUCTION_URL

\* an __exit__ that closes only when the block ended without an exception
__exit___onlyNormal(exc) == [closes |-> exc = "none", suppresses |-> FALSE]

\* Asaas.__exit__(*args): self.close(), and the implicit return None does
\* not suppress the exception
__exit__(exc) == [closes |-> TRUE, suppresses |-> FALSE]

\* exceptions that can be raised inside a with-block
BlockExceptions == {"AsaasAPIError", "KeyError"}

VARIABLES max_retries, pc, method, total, attempts, n503, nforced, last, outcome,
          qpc, qparams, outgoing,
          gpc, params, limit, max_items, offset, yielded, base_params, page, idx,
          waiting, out, requests, sent, raw, got, gerr,
          cpc, api_key, sandbox, base_url_arg, base_url, pooled, close_calls,
          raised, propagated, cerr,
          timeout, session_headers, cookies, built, log_config, tpc, targs,
          tparams, req_headers, wire, hres, logged, twin_logged,
          server, stops

httpVars == <<max_retries, pc, method, total, attempts, n503, nforced, last, outcome>>
paramVars == <<qpc, qparams, outgoing>>
pagVars == <<gpc, params, limit, max_items, offset, yielded, base_params, page,
             idx, waiting, out, requests, sent, raw, got, gerr>>
clientVars == <<cpc, api_key, sandbox, base_url_arg, base_url, pooled,
                close_calls, raised, propagated, cerr>>
headerVars == <<timeout, session_headers, cookies, built, log_config, tpc,
                targs, tparams, req_headers, wire, hres, logged, twin_logged>>
serverVars == <<server, stops>>
notHttpVars == <<paramVars, pagVars, clientVars, headerVars, serverVars>>
notParamVars == <<httpVars, pagVars, clientVars, headerVars, serverVars>>
notPagVars == <<httpVars, paramVars, clientVars, headerVars, serverVars>>
notClientVars == <<httpVars, paramVars, pagVars, headerVars, serverVars>>
notHeaderVars == <<httpVars, paramVars, pagVars, clientVars, serverVars>>

vars == <<httpVars, paramVars, pagVars, clientVars, headerVars, serverVars>>

\* no consistent server is attached and no pull has found the iterator ended
ServerIdle ==
    /\ server = NoServer
    /\ stops = 0

\* the HttpClient of the idle client, with no call in progress
HeadersIdle ==
    /\ timeout = 30
    /\ session_headers = SessionHeaders("key_a")
    /\ cookies = {}
    /\ built = Config("key_a", SANDBOX_URL, 30, SessionHeaders("key_a"))
    /\ log_config = "disabled"
    /\ tpc = [t \in Threads |-> "idle"]
    /\ targs = [t \in Threads |-> NoArgs]
    /\ tparams = [t \in Threads |-> PyNone]
    /\ req_headers = [t \in Threads |-> NoHeaders]
    /\ wire = [t \in Threads |-> NoWire]
    /\ hres = [t \in Threads |-> "none"]
    /\ logged = NoLog
    /\ twin_logged = NoLog

\* a client built as Asaas(api_key="key_a", sandbox=True), outside any block
ClientIdle ==
    /\ cpc = "ready"
    /\ api_key = "key_a"
    /\ sandbox = TRUE
    /\ base_url_arg = NoUrl
    /\ base_url = SANDBOX_URL
    /\ pooled = FALSE
    /\ close_calls = 0
    /\ raised = "none"
    /\ propagated = "none"
    /\ cerr = "none"

\* no list call has been made
PagIdle ==
    /\ gpc = "none"
    /\ params = [is_none |-> TRUE, q |-> NoQuery]
    /\ limit = 0
    /\ max_items = NoMax
    /\ offset = 0
    /\ yielded = 0
    /\ base_params = NoQuery
    /\ page = NoPage
    /\ idx = 0
    /\ waiting = FALSE
    /\ out = <<>>
    /\ requests = 0
    /\ sent = NoQuery
    /\ raw = NoBody
    /\ got = <<>>
    /\ gerr = "none"

\* no call is building query parameters
ParamsIdle ==
    /\ qpc = "idle"
    /\ qparams = NoDict
    /\ outgoing = NoDict

Init ==
    /\ max_retries \in 0..MaxRetriesBound
    /\ pc = "idle"
    /\ method = "GET"
    /\ total = max_retries
    /\ attempts = 0
    /\ n503 = 0
    /\ nforced = 0
    /\ last = NoEvent
    /\ outcome = NoOutcome
    /\ ParamsIdle
    /\ PagIdle
    /\ ClientIdle
    /\ HeadersIdle
    /\ ServerIdle

\* HttpClient.request(method, ...) is called (get/post/put/delete route here)
Request(m) ==
    /\ pc \in {"idle", "done"}
    /\ method' = m
    /\ total' = max_retries
    /\ attempts' = 0
    /\ n503' = 0
    /\ nforced' = 0
    /\ last' = NoEvent
    /\ outcome' = NoOutcome
    /\ pc' = "sending"
    /\ UNCHANGED max_retries
    /\ UNCHANGED notHttpVars

\* one attempt answered by an HTTP response
ReceiveResponse(status_code, has_retry_after, content) ==
    /\ pc = "sending"
    /\ attempts' = attempts + 1
    /\ n503' = IF status_code = 503 THEN n503 + 1 ELSE n503
    /\ nforced' = IF status_code \in status_forcelist THEN nforced + 1 ELSE nforced
    /\ IF is_retry(method, status_code, has_retry_after, total)
       THEN /\ last' = Event("response", status_code, has_retry_after, Unread)
            /\ total' = total - 1
            /\ IF is_exhausted(total - 1)
               THEN /\ pc' = "done"
                    /\ outcome' = ExceptClause(MaxRetryErrorClass("response"))
               ELSE /\ pc' = "sending"
                    /\ outcome' = outcome
       ELSE /\ last' = Event("response", status_code, has_retry_after, content)
            /\ total' = total
            /\ pc' = "done"
            /\ outcome' = raise_for_status(status_code, ParseBody(content))
    /\ UNCHANGED <<max_retries, method>>
    /\ UNCHANGED notHttpVars

\* one attempt that ends in a transport failure
TransportError(kind) ==
    /\ pc = "sending"
    /\ attempts' = attempts + 1
    /\ last' = Event(kind, 0, FALSE, Unread)
    /\ IF kind \in {"read_timeout", "connection_reset"}
          /\ ~_is_method_retryable(method)
       THEN /\ total' = total
            /\ pc' = "done"
            /\ outcome' = ExceptClause(ReraisedClass(kind))
       ELSE /\ total' = total - 1
            /\ IF is_exhausted(total - 1)
               THEN /\ pc' = "done"
                    /\ outcome' = ExceptClause(MaxRetryErrorClass(kind))
               ELSE /\ pc' = "sending"
                    /\ outcome' = outcome
    /\ UNCHANGED <<max_retries, method, n503, nforced>>
    /\ UNCHANGED notHttpVars

Next ==
    \/ \E m \in Methods : Request(m)
    \/ \E s \in Statuses, ra \in BOOLEAN, c \in Contents : ReceiveResponse(s, ra, c)
    \/ \E k \in TransportErrors : TransportError(k)

Spec == Init /\ [][Next]_vars

TypeOK ==
    /\ max_retries \in 0..MaxRetriesBound
    /\ pc \in {"idle", "sending", "done"}
    /\ method \in Methods
    /\ total \in -1..max_retries
    /\ attempts \in 0..(max_retries + 1)
    /\ outcome.kind \in {"none", "return", "raise"}
    /\ (pc = "done") = (outcome.kind # "none")

(* =================== query parameters of one request ==================== *)
\* the transport is constructed and no call is running
HttpIdle ==
    /\ max_retries = 0
    /\ pc = "idle"
    /\ method = "GET"
    /\ total = 0
    /\ attempts = 0
    /\ n503 = 0
    /\ nforced = 0
    /\ last = NoEvent
    /\ outcome = NoOutcome

InitParams ==
    /\ HttpIdle
    /\ PagIdle
    /\ ClientIdle
    /\ HeadersIdle
    /\ ServerIdle
    /\ qpc = "idle"
    /\ qparams = NoDict
    /\ outgoing = NoDict

\* request(method, path, params=...) is called with a dict or with None
CallWithParams(p) ==
    /\ qpc \in {"idle", "sent"}
    /\ qpc' = "called"
    /\ qparams' = p
    /\ outgoing' = NoDict
    /\ UNCHANGED notParamVars

\* self._session.request(..., params=_clean_params(params), ...)
SendParams ==
    /\ qpc = "called"
    /\ qpc' = "sent"
    /\ outgoing' = _clean_params(qparams)
    /\ UNCHANGED qparams
    /\ UNCHANGED notParamVars

NextParams ==
    \/ \E p \in {NoDict} \cup {Dict(d) : d \in Dicts} : CallWithParams(p)
    \/ SendParams

SpecParams == InitParams /\ [][NextParams]_vars

(* ================== paginate and Resource._list ========================= *)
InitPaginate ==
    /\ HttpIdle
    /\ ParamsIdle
    /\ PagIdle
    /\ ClientIdle
    /\ HeadersIdle
    /\ ServerIdle

\* paginate(http, path, params, limit, max_items): a generator function, so
\* the call only creates the generator; no line of the body runs
Paginate(p, lim, mx) ==
    /\ gpc = "none"
    /\ gpc' = "created"
    /\ params' = p
    /\ limit' = lim
    /\ max_items' = mx
    /\ UNCHANGED <<offset, yielded, base_params, page, idx, waiting, out,
                   requests, sent, raw, got, gerr>>
    /\ UNCHANGED notPagVars

\* the consumer calls next(): the body runs from its start to the first
\* http.get, or resumes after the yield (yielded += 1 and the max_items test)
Pull ==
    /\ gpc \in {"created", "at_yield"}
    /\ IF gpc = "created"
       THEN /\ offset' = 0
            /\ yielded' = 0
            /\ base_params' = CopyParams(params)
            /\ sent' = page_params(CopyParams(params), 0, limit)
            /\ requests' = requests + 1
            /\ gpc' = "fetching"
            /\ waiting' = TRUE
       ELSE /\ yielded' = yielded + 1
            /\ IF StopAfterYield(max_items, yielded + 1)
               THEN gpc' = "finished" /\ waiting' = FALSE
               ELSE gpc' = "looping" /\ waiting' = TRUE
            /\ UNCHANGED <<offset, base_params, sent, requests>>
    /\ UNCHANGED <<params, limit, max_items, page, idx, out, raw, got, gerr>>
    /\ UNCHANGED notPagVars

\* http.get returns a list body: page = PaginatedResponse(response)
Respond(body) ==
    /\ gpc = "fetching"
    /\ raw' = body
    /\ page' = PaginatedResponse(body)
    /\ idx' = 0
    /\ got' = Append(got, Got(PaginatedResponse(body)))
    /\ gpc' = "looping"
    /\ UNCHANGED <<params, limit, max_items, offset, yielded, base_params,
                   waiting, out, requests, sent, gerr>>
    /\ UNCHANGED notPagVars

\* a failed page fetch that paginate would issue once more
FetchFails_retried(e) ==
    /\ gpc = "fetching"
    /\ requests < MaxPages
    /\ requests' = requests + 1
    /\ UNCHANGED <<gpc, params, limit, max_items, offset, yielded, base_params,
                   page, idx, waiting, out, sent, raw, got, gerr>>
    /\ UNCHANGED notPagVars

\* http.get raises: the exception leaves the generator, which is finished
FetchFails(e) ==
    /\ gpc = "fetching"
    /\ gerr' = e
    /\ gpc' = "finished"
    /\ waiting' = FALSE
    /\ UNCHANGED <<params, limit, max_items, offset, yielded, base_params,
                   page, idx, out, requests, sent, raw, got>>
    /\ UNCHANGED notPagVars

\* the for loop: yield the next item, or leave the loop and either return
\* or advance the offset and issue the next http.get
Loop ==
    /\ gpc = "looping"
    /\ IF ~PageExhausted(idx, page.data)
       THEN /\ out' = Append(out, page.data[idx + 1])
            /\ idx' = idx + 1
            /\ gpc' = "at_yield"
            /\ waiting' = FALSE
            /\ UNCHANGED <<offset, sent, requests>>
       ELSE IF ~Continue(page, offset)
       THEN /\ gpc' = "finished"
            /\ waiting' = FALSE
            /\ UNCHANGED <<offset, sent, requests, out, idx>>
       ELSE /\ requests < MaxPages
            /\ offset' = NextOffset(offset, page, limit)
            /\ sent' = page_params(base_params, NextOffset(offset, page, limit), limit)
            /\ requests' = requests + 1
            /\ gpc' = "fetching"
            /\ UNCHANGED <<out, idx, waiting>>
    /\ UNCHANGED <<params, limit, max_items, yielded, base_params, page,
                   raw, got, gerr>>
    /\ UNCHANGED notPagVars

\* next() on a generator that has returned or raised: StopIteration, and no
\* line of paginate runs
PullFinished ==
    /\ gpc = "finished"
    /\ stops < MaxStops
    /\ stops' = stops + 1
    /\ UNCHANGED server
    /\ UNCHANGED pagVars
    /\ UNCHANGED <<httpVars, paramVars, clientVars, headerVars>>

\* Customers.list(offset=, limit=, name=): builds params and calls
\* Resource._list, whose http.get is now outstanding
List(off, lim, name) ==
    /\ gpc = "none"
    /\ params' = [is_none |-> FALSE, q |-> Query(off, lim, [name |-> name])]
    /\ sent' = ListParams(off, lim, name)
    /\ requests' = requests + 1
    /\ waiting' = TRUE
    /\ gpc' = "listing"
    /\ UNCHANGED <<limit, max_items, offset, yielded, base_params, page, idx,
                   out, raw, got, gerr>>
    /\ UNCHANGED notPagVars

\* Resource._list: return PaginatedResponse(raw)
ListRespond(body) ==
    /\ gpc = "listing"
    /\ raw' = body
    /\ page' = PaginatedResponse(body)
    /\ waiting' = FALSE
    /\ gpc' = "listed"
    /\ UNCHANGED <<params, limit, max_items, offset, yielded, base_params, idx,
                   out, requests, sent, got, gerr>>
    /\ UNCHANGED notPagVars

\* Resource._list: http.get raises and the exception reaches the caller
ListFails(e) ==
    /\ gpc = "listing"
    /\ gerr' = e
    /\ waiting' = FALSE
    /\ gpc' = "listed"
    /\ UNCHANGED <<params, limit, max_items, offset, yielded, base_params, page,
                   idx, out, requests, sent, raw, got>>
    /\ UNCHANGED notPagVars

NextPaginate ==
    \/ \E c \in PaginateCalls, mx \in {NoMax} \cup (0..MaxMaxItems) :
          Paginate(c.params, c.limit, mx)
    \/ Pull
    \/ \E b \in PageBodies : Respond(b)
    \/ \E e \in FetchErrors : FetchFails(e)
    \/ Loop
    \/ PullFinished
    \/ \E off \in {NoneArg, 0, 2}, lim \in {NoneArg, 0, 5},
          name \in {PyNone, "str:", "str:John"} : List(off, lim, name)
    \/ \E b \in PageBodies : ListRespond(b)
    \/ \E e \in FetchErrors : ListFails(e)

SpecPaginate == InitPaginate /\ [][NextPaginate]_vars

\* the same iteration with a consumer that keeps pulling, a generator that
\* keeps running between yields and a transport that answers every request
FairPaginate ==
    /\ WF_vars(Pull)
    /\ WF_vars(Loop)
    /\ WF_vars((\E b \in PageBodies : Respond(b)) \/ (\E e \in FetchErrors : FetchFails(e)))

SpecPaginateLive == SpecPaginate /\ FairPaginate

(* =============== paginate against a consistent server =================== *)
InitServer ==
    /\ HttpIdle
    /\ ParamsIdle
    /\ PagIdle
    /\ ClientIdle
    /\ HeadersIdle
    /\ server \in Servers
    /\ stops = 0

\* the server answers the outstanding page request
ServerResponds == Respond(ServerPage(server, sent))

NextServer ==
    \/ \E c \in PaginateCalls : Paginate(c.params, c.limit, NoMax)
    \/ Pull
    \/ ServerResponds
    \/ Loop
    \/ PullFinished

SpecServer == InitServer /\ [][NextServer]_vars

(* ======================= the client and its scope ======================= *)
InitClient ==
    /\ HttpIdle
    /\ ParamsIdle
    /\ PagIdle
    /\ HeadersIdle
    /\ ServerIdle
    /\ cpc = "unbuilt"
    /\ api_key = ""
    /\ sandbox = FALSE
    /\ base_url_arg = NoUrl
    /\ base_url = ""
    /\ pooled = FALSE
    /\ close_calls = 0
    /\ raised = "none"
    /\ propagated = "none"
    /\ cerr = "none"

\* Asaas(api_key, sandbox=, base_url=)
Construct(key, sb, url) ==
    /\ cpc = "unbuilt"
    /\ api_key' = key
    /\ sandbox' = sb
    /\ base_url_arg' = url
    /\ IF key = ""
       THEN /\ cerr' = "ValueError"
            /\ cpc' = "failed"
            /\ base_url' = base_url
       ELSE /\ cerr' = "none"
            /\ cpc' = "ready"
            /\ base_url' = rstrip_slash(resolved_url(sb, url))
    /\ UNCHANGED <<pooled, close_calls, raised, propagated>>
    /\ UNCHANGED notClientVars

\* with client: ... is entered; __enter__ returns self
Enter ==
    /\ cpc = "ready"
    /\ cpc' = "inside"
    /\ raised' = "none"
    /\ propagated' = "none"
    /\ UNCHANGED <<api_key, sandbox, base_url_arg, base_url, pooled,
                   close_calls, cerr>>
    /\ UNCHANGED notClientVars

\* a request through the client: the session keeps the connection pooled
UseConnection ==
    /\ cpc \in {"ready", "inside"}
    /\ pooled' = TRUE
    /\ UNCHANGED <<cpc, api_key, sandbox, base_url_arg, base_url, close_calls,
                   raised, propagated, cerr>>
    /\ UNCHANGED notClientVars

\* the block ends, normally (exc = "none") or by an exception: __exit__ runs
LeaveBlock(exc) ==
    /\ cpc = "inside"
    /\ close_calls < MaxCloses
    /\ cpc' = "ready"
    /\ raised' = exc
    /\ IF __exit__(exc).closes
       THEN pooled' = FALSE /\ close_calls' = close_calls + 1
       ELSE UNCHANGED <<pooled, close_calls>>
    /\ propagated' = IF __exit__(exc).suppresses THEN "none" ELSE exc
    /\ UNCHANGED <<api_key, sandbox, base_url_arg, base_url, cerr>>
    /\ UNCHANGED notClientVars

\* client.close(): HttpClient.close() -> session.close(), at any time
Close ==
    /\ cpc \in {"ready", "inside"}
    /\ close_calls < MaxCloses
    /\ pooled' = FALSE
    /\ close_calls' = close_calls + 1
    /\ UNCHANGED <<cpc, api_key, sandbox, base_url_arg, base_url, raised,
                   propagated, cerr>>
    /\ UNCHANGED notClientVars

NextClient ==
    \/ \E key \in ApiKeys, sb \in BOOLEAN, url \in BaseUrlArgs :
          Construct(key, sb, url)
    \/ Enter
    \/ UseConnection
    \/ \E exc \in {"none"} \cup BlockExceptions : LeaveBlock(exc)
    \/ Close

SpecClient == InitClient /\ [][NextClient]_vars

(* ================= request headers, body and logging ==================== *)
\* the client as HttpClient.__init__ leaves it, for one of two credentials
\* and one logging configuration
Constructed(key, lc) ==
    /\ HttpIdle
    /\ ParamsIdle
    /\ PagIdle
    /\ cpc = "ready"
    /\ api_key = key
    /\ sandbox = TRUE
    /\ base_url_arg = NoUrl
    /\ base_url = SANDBOX_URL
    /\ pooled = FALSE
    /\ close_calls = 0
    /\ raised = "none"
    /\ propagated = "none"
    /\ cerr = "none"
    /\ timeout = 30
    /\ session_headers = SessionHeaders(key)
    /\ cookies = {}
    /\ built = Config(key, SANDBOX_URL, 30, SessionHeaders(key))
    /\ log_config = lc
    /\ tpc = [t \in Threads |-> "idle"]
    /\ targs = [t \in Threads |-> NoArgs]
    /\ tparams = [t \in Threads |-> PyNone]
    /\ req_headers = [t \in Threads |-> NoHeaders]
    /\ wire = [t \in Threads |-> NoWire]
    /\ hres = [t \in Threads |-> "none"]
    /\ logged = NoLog
    /\ twin_logged = NoLog
    /\ ServerIdle

\* the configuration request() reads from self
Self == Config(api_key, base_url, timeout, session_headers)

\* the same configuration of the client that differs only in api_key
TwinSelf ==
    Config(TwinKey(api_key), base_url, timeout, SessionHeaders(TwinKey(api_key)))

\* request(), lines 71-82: url, req_headers and the first logger.debug
Prepare(t, a, prm) ==
    /\ tpc[t] = "idle"
    /\ IF logger_debug(log_config).raises
       THEN /\ hres' = [hres EXCEPT ![t] = "LoggingError"]
            /\ UNCHANGED <<tpc, targs, tparams, req_headers, logged, twin_logged>>
       ELSE /\ tpc' = [tpc EXCEPT ![t] = "prepared"]
            /\ targs' = [targs EXCEPT ![t] = a]
            /\ tparams' = [tparams EXCEPT ![t] = prm]
            /\ req_headers' = [req_headers EXCEPT ![t] = BuildReqHeaders(a)]
            /\ hres' = [hres EXCEPT ![t] = "none"]
            /\ IF logger_debug(log_config).emits
               THEN /\ logged' = LogBefore(Self, a, prm)
                    /\ twin_logged' = LogBefore(TwinSelf, a, prm)
               ELSE UNCHANGED <<logged, twin_logged>>
    /\ UNCHANGED <<timeout, session_headers, cookies, built, log_config, wire>>
    /\ UNCHANGED notHeaderVars

\* self._session.request(...), lines 85-94: the session merges its headers
\* and cookies with the call's and sends the prepared request
Send(t) ==
    /\ tpc[t] = "prepared"
    /\ tpc' = [tpc EXCEPT ![t] = "sent"]
    /\ wire' = [wire EXCEPT ![t] =
                   Prepared(targs[t], req_headers[t], session_headers, cookies)]
    /\ UNCHANGED <<timeout, session_headers, cookies, built, log_config, targs,
                   tparams, req_headers, hres, logged, twin_logged>>
    /\ UNCHANGED notHeaderVars

\* the response arrives: the session stores the cookies it sets, the second
\* logger.debug runs, and the call returns or raises by the status
Receive(t, status_code, set_cookie) ==
    /\ tpc[t] = "sent"
    /\ cookies' = cookies \cup set_cookie
    /\ IF logger_debug(log_config).raises
       THEN /\ hres' = [hres EXCEPT ![t] = "LoggingError"]
            /\ UNCHANGED <<logged, twin_logged>>
       ELSE /\ hres' = [hres EXCEPT ![t] =
                          IF Is2xx(status_code) THEN "return" ELSE "AsaasAPIError"]
            /\ IF logger_debug(log_config).emits
               THEN /\ logged' = LogAfter(Self, targs[t], status_code)
                    /\ twin_logged' = LogAfter(TwinSelf, targs[t], status_code)
               ELSE UNCHANGED <<logged, twin_logged>>
    /\ tpc' = [tpc EXCEPT ![t] = "idle"]
    /\ targs' = [targs EXCEPT ![t] = NoArgs]
    /\ tparams' = [tparams EXCEPT ![t] = PyNone]
    /\ req_headers' = [req_headers EXCEPT ![t] = NoHeaders]
    /\ wire' = [wire EXCEPT ![t] = NoWire]
    /\ UNCHANGED <<timeout, session_headers, built, log_config>>
    /\ UNCHANGED notHeaderVars

\* the transport fails: lines 95-98, no second log record
SendFails(t, e) ==
    /\ tpc[t] = "sent"
    /\ hres' = [hres EXCEPT ![t] = e]
    /\ tpc' = [tpc EXCEPT ![t] = "idle"]
    /\ targs' = [targs EXCEPT ![t] = NoArgs]
    /\ tparams' = [tparams EXCEPT ![t] = PyNone]
    /\ req_headers' = [req_headers EXCEPT ![t] = NoHeaders]
    /\ wire' = [wire EXCEPT ![t] = NoWire]
    /\ UNCHANGED <<timeout, session_headers, cookies, built, log_config,
                   logged, twin_logged>>
    /\ UNCHANGED notHeaderVars

ResponseStatuses == {200, 404}
SetCookies == {{}, {"sid"}}

\* concurrent calls on one client, with the logger at its default level
InitHeaders == \E key \in {"key_a", "key_b"} : Constructed(key, "disabled")

NextHeaders ==
    \E t \in Threads :
       \/ \E a \in RequestArgs : Prepare(t, a, PyNone)
       \/ Send(t)
       \/ \E sc \in ResponseStatuses, ck \in SetCookies : Receive(t, sc, ck)
       \/ \E e \in {"AsaasTimeoutError", "AsaasConnectionError"} : SendFails(t, e)

SpecHeaders == InitHeaders /\ [][NextHeaders]_vars

\* one caller, every logging configuration
InitLog ==
    \E key \in {"key_a", "key_b"}, lc \in LogConfigs : Constructed(key, lc)

NextLog ==
    \/ \E a \in RequestArgs, prm \in ParamArgs : Prepare("t1", a, prm)
    \/ Send("t1")
    \/ \E sc \in ResponseStatuses, ck \in SetCookies : Receive("t1", sc, ck)
    \/ \E e \in {"AsaasTimeoutError", "AsaasConnectionError"} : SendFails("t1", e)

SpecLog == InitLog /\ [][NextLog]_vars

(* ======================= claims about the transport ===================== *)
Typed == APIErrorKinds \cup {"AsaasTimeoutError", "AsaasConnectionError"}

\* the call ended on an HTTP response whose status is outside 200..299
EndedOnNon2xx ==
    /\ pc = "done"
    /\ last.kind = "response"
    /\ ~(last.status \in 200..299)

\* the error kind the taxonomy assigns to a status
KindOfStatus(s) ==
    IF s = 400 THEN "AsaasValidationError"
    ELSE IF s = 401 THEN "AsaasAuthenticationError"
    ELSE IF s = 404 THEN "AsaasNotFoundError"
    ELSE IF s = 429 THEN "AsaasRateLimitError"
    ELSE "AsaasAPIError"

\* C1: every call that ends on a non-2xx response fails with the error kind
\* selected by the status alone (400/401/404/429 typed, anything else the
\* generic AsaasAPIError), whatever the body is.
C1_KindByStatusAlone ==
    EndedOnNon2xx =>
        /\ outcome.kind = "raise"
        /\ outcome.exc = KindOfStatus(last.status)

\* C2: a GET, PUT or DELETE answered by a force-list status on every attempt
\* until the retry budget is spent fails with the generic AsaasAPIError that
\* carries the last response's status code.
C2_ExhaustionSurfacesLastError ==
    ( /\ pc = "done"
      /\ method \in {"GET", "PUT", "DELETE"}
      /\ attempts = max_retries + 1
      /\ nforced = attempts )
    => /\ outcome.kind = "raise"
       /\ outcome.exc = "AsaasAPIError"
       /\ outcome.status_code = last.status

\* C3: for GET, PUT and DELETE, k consecutive 503 responses with
\* 1 <= k <= max_retries leave the call running, and a 200 that follows them
\* ends it at k+1 attempts by returning the parsed body of that 200.
C3_RetryThenSuccess ==
    method \in {"GET", "PUT", "DELETE"} =>
        /\ ( /\ last.kind = "response" /\ last.status = 503
             /\ n503 = attempts /\ attempts \in 1..max_retries )
           => pc = "sending"
        /\ ( /\ last.kind = "response" /\ last.status = 200
             /\ n503 = attempts - 1 /\ n503 \in 1..max_retries )
           => /\ pc = "done"
              /\ outcome.kind = "return"
              /\ outcome.value =
                    IF last.content.kind = "json" THEN last.content.value
                    ELSE IF last.content.kind = "text"
                         THEN RawDict(last.content.text)
                    ELSE EmptyDict

\* C3 witness: a GET that saw max_retries >= 2 consecutive 503s and then a 200
C3_Witness ==
    /\ pc = "done" /\ method = "GET"
    /\ max_retries >= 2 /\ n503 = max_retries /\ attempts = n503 + 1
    /\ last.kind = "response" /\ last.status = 200
    /\ last.content.kind = "json"
    /\ outcome.kind = "return"

\* C4: a POST answered by a force-list status is attempted exactly once and
\* fails at once with the generic AsaasAPIError carrying that status.
C4_PostNotRetried ==
    ( /\ method = "POST"
      /\ last.kind = "response"
      /\ last.status \in {500, 502, 503, 504} )
    => /\ pc = "done"
       /\ attempts = 1
       /\ outcome.kind = "raise"
       /\ outcome.exc = "AsaasAPIError"
       /\ outcome.status_code = last.status

\* C5: after a response, another attempt follows only if the method is one
\* of GET, PUT, DELETE, HEAD, OPTIONS and the status is one of 500, 502, 503,
\* 504; for every other status exactly one attempt is made.
C5_RetryOnlyOnForcelist ==
    last.kind = "response" =>
        /\ pc = "sending" =>
              /\ method \in {"GET", "PUT", "DELETE", "HEAD", "OPTIONS"}
              /\ last.status \in {500, 502, 503, 504}
        /\ ~(last.status \in {500, 502, 503, 504}) =>
              /\ pc = "done"
              /\ attempts = 1

\* C6: a call that ends on a timeout fails with AsaasTimeoutError, one that
\* ends on a connection failure fails with AsaasConnectionError, and no
\* transport failure surfaces as any other kind.
C6_TransportErrorsTyped ==
    pc = "done" =>
        /\ last.kind \in {"connect_timeout", "read_timeout"}
              => outcome.exc = "AsaasTimeoutError"
        /\ last.kind \in {"connect_error", "connection_reset"}
              => outcome.exc = "AsaasConnectionError"

\* C7: a POST that hits a timeout or a connection failure is attempted
\* exactly once and that error surfaces, for every max_retries.
C7_PostTransportErrorTerminal ==
    (method = "POST" /\ last.kind \in TransportErrors)
    => /\ pc = "done"
       /\ attempts = 1
       /\ outcome.exc \in {"AsaasTimeoutError", "AsaasConnectionError"}

\* the "errors" list of a response body (empty when the body has none)
ErrorsOf(content) ==
    IF content.kind = "json" /\ content.value.ek = "list"
    THEN content.value.es ELSE <<>>

\* C8: every error raised for a non-2xx response carries the response's
\* status as status_code and the body's "errors" list, in order, as errors.
C8_ErrorCarriesStatusAndErrors ==
    (EndedOnNon2xx /\ outcome.kind = "raise")
    => /\ outcome.exc \in APIErrorKinds
       /\ outcome.status_code = last.status
       /\ outcome.errors = ErrorsOf(last.content)

\* C9: a finished call has returned if and only if its final response has a
\* status in 200..299, and then the value is the parsed JSON body unchanged,
\* or the empty object when the response has no body.
C9_ReturnIff2xx ==
    pc = "done" =>
        /\ (outcome.kind = "return")
              <=> (last.kind = "response" /\ last.status \in 200..299)
        /\ (outcome.kind = "return" /\ last.content.kind = "json")
              => outcome.value = last.content.value
        /\ (outcome.kind = "return" /\ last.content.kind = "empty")
              => outcome.value = EmptyDict

\* C9 witness: a 299 with a JSON body was returned, a 300 was raised
C9_Witness ==
    /\ pc = "done" /\ last.kind = "response" /\ last.status = 299
    /\ last.content.kind = "json" /\ last.content.value.t = "array"
    /\ outcome.kind = "return" /\ outcome.value = last.content.value

\* C10: a 2xx response whose body is non-empty and not JSON never raises:
\* the call returns {"raw": <response text>}.
C10_RawWrapOn2xx ==
    ( /\ last.kind = "response"
      /\ last.status \in 200..299
      /\ last.content.kind = "text" )
    => /\ pc = "done"
       /\ outcome.kind = "return"
       /\ outcome.value.t = "raw"
       /\ outcome.value.raw = last.content.text

\* C10 witness: a POST answered 200 with an HTML page returned the wrapper
C10_Witness ==
    /\ pc = "done" /\ method = "POST"
    /\ last.kind = "response" /\ last.status = 200
    /\ last.content.kind = "text" /\ last.content.text = "<html>502</html>"
    /\ outcome.kind = "return" /\ outcome.value.raw = "<html>502</html>"

(* ==================== claims about query parameters ===================== *)
\* C11: the parameters handed to the session are exactly the entries of the
\* caller's dict whose value is not None, each with its value unchanged;
\* False, 0 and the empty string are kept.
C11_OnlyNoneDropped ==
    (qpc = "sent" /\ ~qparams.is_none) =>
        /\ ~outgoing.is_none
        /\ DOMAIN outgoing.d = {k \in DOMAIN qparams.d : qparams.d[k] # "py:None"}
        /\ \A k \in DOMAIN outgoing.d : outgoing.d[k] = qparams.d[k]

\* C11 witness: a dict with a None, a False, a 0 and nothing else was sent
C11_Witness ==
    /\ qpc = "sent"
    /\ ~qparams.is_none
    /\ DOMAIN qparams.d = {"name", "email", "cpfCnpj"}
    /\ qparams.d["name"] = "py:None"
    /\ qparams.d["email"] = "py:False"
    /\ qparams.d["cpfCnpj"] = "py:0"
    /\ DOMAIN outgoing.d = {"email", "cpfCnpj"}

(* ======================= claims about pagination ======================== *)
RECURSIVE Flatten(_)
\* the data of the pages received, concatenated in page order
Flatten(pages) ==
    IF pages = <<>> THEN <<>>
    ELSE Flatten(SubSeq(pages, 1, Len(pages) - 1)) \o pages[Len(pages)].data

RECURSIVE SumLimits(_)
\* the sum of the limit fields of the pages received
SumLimits(pages) ==
    IF pages = <<>> THEN 0
    ELSE SumLimits(SubSeq(pages, 1, Len(pages) - 1)) + pages[Len(pages)].limit

Iterating == gpc \in {"created", "fetching", "looping", "at_yield", "finished"}

\* the iteration returned by itself (no error, no max_items cut)
Exhausted == gpc = "finished" /\ gerr = "none" /\ max_items = NoMax

\* C12: what paginate has yielded is always a prefix of the concatenation of
\* the received pages' data; when it ends by itself it has yielded all of it,
\* the last page is the first one with has_more false, and it has issued
\* exactly one GET per page.
C12_YieldsConcatenation ==
    Iterating =>
        /\ Len(out) <= Len(Flatten(got))
        /\ out = SubSeq(Flatten(got), 1, Len(out))
        /\ Exhausted =>
              /\ out = Flatten(got)
              /\ requests = Len(got)
              /\ ~got[Len(got)].has_more
              /\ \A k \in 1..(Len(got) - 1) : got[k].has_more

\* C12 witness: page 1 with 2 items and has_more, page 2 with 1 item and no
\* more: 3 items yielded in order with 2 requests
C12_Witness ==
    /\ Exhausted
    /\ Len(got) = 2
    /\ got[1].data = <<"cus_1", "cus_2">> /\ got[1].has_more /\ got[1].limit = 2
    /\ got[2].data = <<"cus_1">> /\ ~got[2].has_more
    /\ out = <<"cus_1", "cus_2", "cus_1">>
    /\ requests = 2

C14_NeverMoreThanMaxItems ==
    (Iterating /\ max_items # NoMax) => Len(out) <= max_items

\* C15: every page request sends limit equal to the requested page size and
\* offset equal to the sum of the limit fields returned by the earlier
\* pages (0 for the first request).
C15_OffsetIsSumOfReturnedLimits ==
    gpc = "fetching" =>
        /\ sent.limit = limit
        /\ sent.offset = SumLimits(got)
        /\ requests = Len(got) + 1

\* C15 witness: the third request, after pages that returned limits other
\* than the requested page size
C15_Witness ==
    /\ gpc = "fetching"
    /\ requests = 3
    /\ limit = 3
    /\ got[1].limit = 10 /\ got[2].limit = 1
    /\ sent.offset = 11

\* C16: when a page is exhausted the iteration ends if its has_more is false
\* and requests another page if it is true, whatever total_count says.
C16_HasMoreOnly ==
    [][ (gpc = "looping" /\ idx >= Len(page.data))
        => IF page.has_more
           THEN gpc' = "fetching" /\ requests' = requests + 1
           ELSE gpc' = "finished" /\ requests' = requests ]_vars

\* C16 witness: a page with has_more=true was followed by another request
\* although total_count items had been yielded already
C16_Witness ==
    /\ gpc = "fetching" /\ requests = 2
    /\ page.has_more /\ page.total_count = 1
    /\ Len(out) = 2

\* C17: creating the sequence issues no request; the generator runs (and a
\* request is outstanding) only while the consumer waits for an item; a
\* request is issued only when none is outstanding, and after the first one
\* only when every item of the current page has been delivered.
C17_PullDriven ==
    [][ Iterating' =>
          /\ gpc' = "created" => requests' = 0
          /\ gpc' \in {"fetching", "looping"} => waiting'
          /\ requests' # requests =>
                /\ requests' = requests + 1
                /\ gpc # "fetching"
                /\ waiting'
                /\ requests >= 1 =>
                      /\ idx = Len(page.data)
                      /\ out = Flatten(got) ]_vars

\* C17 witness: the second page is requested after both items of the first
\* were delivered and the consumer pulled again
C17_Witness ==
    /\ gpc = "fetching" /\ requests = 2 /\ waiting
    /\ Len(page.data) = 2 /\ idx = 2 /\ Len(out) = 2

\* the page agrees with the body on every key the body has and carries the
\* default for every key it omits
PageMatches(body, pg) ==
    /\ pg.has_more = (IF body.hasMore = "absent" THEN FALSE
                      ELSE body.hasMore = "true")
    /\ pg.total_count = (IF body.totalCount = -1 THEN 0 ELSE body.totalCount)
    /\ pg.limit = (IF body.limit = -1 THEN 10 ELSE body.limit)
    /\ pg.offset = (IF body.offset = -1 THEN 0 ELSE body.offset)
    /\ pg.data = (IF body.has_data THEN body.data ELSE <<>>)

\* C18: a page takes each of the five fields from the body when the key is
\* present and the default otherwise; a has_more page without limit advances
\* the offset of the next request by 10.
C18_PageDefaults ==
    [][ /\ raw' # raw => PageMatches(raw', page')
        /\ ( /\ Iterating /\ requests >= 1 /\ requests' = requests + 1
             /\ raw.limit = -1 )
           => sent'.offset = sent.offset + 10 ]_vars

\* C18 witness: the second request after a has_more page that omitted limit
C18_Witness ==
    /\ gpc = "fetching" /\ requests = 2
    /\ raw.limit = -1 /\ raw.hasMore = "true" /\ raw.totalCount = -1
    /\ limit = 2
    /\ sent.offset = 10

\* C19: a list call issues exactly one GET, whose parameters are the given
\* filters with the given offset and limit merged in, and returns that one
\* response wrapped as a page, whatever has_more says.
C19_ListFetchesOnePage ==
    gpc \in {"listing", "listed"} =>
        /\ requests = 1
        /\ sent.offset = (IF params.q.offset = NoneArg THEN -1 ELSE params.q.offset)
        /\ sent.limit = (IF params.q.limit = NoneArg THEN -1 ELSE params.q.limit)
        /\ sent.rest = (IF params.q.rest.name = "py:None" THEN <<>>
                        ELSE params.q.rest)
        /\ (gpc = "listed" /\ gerr = "none") => PageMatches(raw, page)

\* C19 witness: a list call with offset 2 and limit 5 returned a page that
\* says has_more
C19_Witness ==
    /\ gpc = "listed" /\ gerr = "none"
    /\ params.q.offset = 2 /\ params.q.limit = 5
    /\ sent.offset = 2 /\ sent.limit = 5
    /\ page.has_more
    /\ requests = 1

(* ======================== claims about the client ======================= *)
\* C20: whenever a with-block is left, normally or by an exception, the
\* pooled connection is released and the exception (if any) reaches the
\* caller; an explicit close() releases it too, and a close() of a client
\* that is already released changes nothing and raises nothing.
C20_ReleasedOnEveryExit ==
    [][ /\ (cpc = "inside" /\ cpc' # "inside") =>
              (~pooled' /\ propagated' = raised')
        /\ close_calls' = close_calls + 1 =>
              /\ ~pooled'
              /\ cerr' = "none"
              /\ <<api_key', base_url', propagated'>> =
                     <<api_key, base_url, IF cpc = "inside" /\ cpc' # "inside"
                                          THEN raised' ELSE propagated>> ]_vars

\* C20 witness: a block that used the connection was left by an exception,
\* which was propagated, and close() was called once more afterwards
C20_Witness ==
    /\ cpc = "ready"
    /\ raised = "KeyError"
    /\ propagated = "KeyError"
    /\ close_calls = 2
    /\ ~pooled

(* ================= claims about headers, body and logging =============== *)
\* the headers a call would carry if they depended on its own arguments and
\* the construction-time configuration alone
HeadersFromArgs(a) ==
    Prepared(a, BuildReqHeaders(a), built.session_headers, {}).headers

\* C21: issuing requests, concurrently or not, leaves api_key, base_url,
\* timeout and the session's default headers at their construction values,
\* and the headers of every request sent depend only on that request's
\* arguments and the construction-time configuration.
C21_RequestsLeaveClientUnchanged ==
    /\ Self = built
    /\ \A t \in Threads :
          tpc[t] = "sent" => wire[t].headers = HeadersFromArgs(targs[t])

\* C22: every request sent carries access_token equal to the api_key given
\* at construction and Accept: application/json, whatever its arguments.
C22_AuthAndAcceptOnEveryRequest ==
    \A t \in Threads :
       tpc[t] = "sent" =>
          /\ "access_token" \in DOMAIN wire[t].headers
          /\ wire[t].headers["access_token"] = built.api_key
          /\ "Accept" \in DOMAIN wire[t].headers
          /\ wire[t].headers["Accept"] = "application/json"

\* C23: with files the body goes out as multipart form data, never as JSON,
\* and Content-Type is not application/json; without files a json argument
\* goes out as the JSON body with Content-Type: application/json.
C23_MultipartOrJson ==
    \A t \in Threads :
       tpc[t] = "sent" =>
          /\ HasFiles(targs[t].files) =>
                /\ wire[t].body = "multipart"
                /\ "Content_Type" \in DOMAIN wire[t].headers
                /\ wire[t].headers["Content_Type"] = "multipart/form-data"
          /\ (~HasFiles(targs[t].files) /\ targs[t].json # PyNone) =>
                /\ wire[t].body = "json"
                /\ "Content_Type" \in DOMAIN wire[t].headers
                /\ wire[t].headers["Content_Type"] = "application/json"

\* C30: what request() logs is the same for two clients that differ only in
\* api_key, so the credential is in no log record, and no call ends
\* differently because of the logging configuration.
C30_CredentialNotLogged ==
    /\ logged = twin_logged
    /\ \A t \in Threads : hres[t] # "LoggingError"

\* C30 witness: with DEBUG logging on, a call was logged before and after
\* and returned
C30_Witness ==
    /\ log_config = "enabled"
    /\ logged.at = "after"
    /\ logged.status = 200
    /\ hres["t1"] = "return"

(* ====================== claims about construction ======================= *)
Built == cpc \in {"ready", "inside"}

\* C24 as stated: a constructed client's base endpoint is the base_url
\* argument whenever one is passed, else the sandbox root when sandbox is
\* true, else the production root; an empty api_key fails with ValueError
\* and leaves no transport.
C24_OverrideIsBaseEndpoint ==
    /\ Built =>
          base_url = IF base_url_arg # NoUrl THEN base_url_arg
                     ELSE IF sandbox THEN SANDBOX_URL ELSE PRODUCTION_URL
    /\ (cpc # "unbuilt" /\ api_key = "") =>
          (cpc = "failed" /\ cerr = "ValueError" /\ base_url = "")

\* the endpoint a constructed client must have under the amended claim
ExpectedEndpoint ==
    CASE base_url_arg = "https://custom.api.com" -> "https://custom.api.com"
      [] base_url_arg = "https://custom.api.com/" -> "https://custom.api.com"
      [] OTHER -> IF sandbox THEN "https://sandbox.asaas.com/api"
                  ELSE "https://api.asaas.com"

\* C24 amended: the base endpoint is the base_url override without its
\* trailing "/" when a non-empty one is given (whatever the sandbox flag),
\* otherwise (None or "") the sandbox root when sandbox is true, otherwise
\* the production root; an empty api_key fails with ValueError and leaves
\* no transport.
C24_EndpointResolution ==
    /\ Built => base_url = ExpectedEndpoint
    /\ (cpc # "unbuilt" /\ api_key = "") =>
          (cpc = "failed" /\ cerr = "ValueError" /\ base_url = "")
    /\ (cpc # "unbuilt" /\ api_key # "") => (Built /\ cerr = "none")

\* C24 witness: a client built with sandbox=True and an override that ends
\* in "/" points at the override
C24_Witness ==
    /\ cpc = "ready"
    /\ sandbox
    /\ base_url_arg = "https://custom.api.com/"
    /\ base_url = "https://custom.api.com"

(* ================== claims about attempts of one call =================== *)
\* C27: a call makes at most max_retries + 1 attempts: it has ended, with a
\* body returned or an exception raised, once that many attempts are made,
\* and with max_retries = 0 it ends after exactly one attempt.
C27_AtMostMaxRetriesPlusOne ==
    /\ attempts <= max_retries + 1
    /\ pc = "sending" => attempts <= max_retries
    /\ pc = "done" => (attempts >= 1 /\ outcome # NoOutcome)
    /\ (pc = "done" /\ max_retries = 0) => attempts = 1

\* C27 witness: a call with max_retries = 2 that ended on its third attempt
C27_Witness ==
    /\ pc = "done"
    /\ max_retries = 2
    /\ attempts = 3
    /\ outcome # NoOutcome

(* ============ claims about paginate and a consistent server ============= *)
\* the records 0 .. n-1 in server order
Records(n) == [k \in 1..n |-> k - 1]

\* C25: against a consistent server paginate without max_items yields a
\* prefix of the records in server order at every moment and, when it ends,
\* all total_count records exactly once, after ceil(total_count / L)
\* requests (one request when total_count is 0).
C25_ConsistentServerComplete ==
    /\ Len(out) <= server.total
    /\ out = Records(Len(out))
    /\ gpc = "finished" =>
          /\ gerr = "none"
          /\ out = Records(server.total)
          /\ requests = IF server.total = 0 THEN 1
                        ELSE (server.total + server.limit - 1) \div server.limit

\* C25 witness: 3 records served 2 per page were all yielded with 2 requests
C25_Witness ==
    /\ gpc = "finished"
    /\ server = Server(3, 2)
    /\ out = <<0, 1, 2>>
    /\ requests = 2

(* ===================== claims about termination ========================= *)
\* the page in hand is one with has_more false
LastPageInHand ==
    /\ gpc \in {"looping", "at_yield"}
    /\ got # <<>>
    /\ ~got[Len(got)].has_more

\* max_items >= 1 is set and the pages fetched hold at least that many items
EnoughFetched ==
    /\ gpc \in {"looping", "at_yield"}
    /\ max_items >= 1
    /\ Len(Flatten(got)) >= max_items

\* C26: once paginate holds a page with has_more false, or max_items >= 1
\* and the fetched pages hold at least max_items items, it ends without
\* another request; once ended, later pulls yield nothing and request
\* nothing.
C26_Terminates ==
    /\ (LastPageInHand \/ EnoughFetched) ~> (gpc = "finished")
    /\ [][ /\ (LastPageInHand \/ EnoughFetched) => requests' = requests
           /\ gpc = "finished" =>
                (gpc' = "finished" /\ out' = out /\ requests' = requests) ]_vars

\* C26 witness: the iteration ended on a page with has_more false after two
\* requests and a later pull found it ended
C26_Witness ==
    /\ Exhausted
    /\ requests = 2
    /\ Len(out) = 3
    /\ stops = 1

(* ================= claims about a failing page fetch ==================== *)
\* C28: when a page fetch of paginate fails, the error reaches the consumer
\* at that pull, what was yielded before is exactly the data of the earlier
\* pages in order, and the sequence is finished: no later step yields an
\* item or issues a request, so the failed page is not fetched again.
C28_FetchErrorEndsIteration ==
    [][ /\ (gpc = "fetching" /\ gpc' # "fetching" /\ got' = got) =>
              /\ gerr' \in FetchErrors
              /\ gpc' = "finished"
              /\ ~waiting'
              /\ out' = Flatten(got)
              /\ requests' = requests
        /\ (gpc = "fetching" /\ gpc' = "fetching") => requests' = requests
        /\ (gpc = "finished" /\ gerr # "none") =>
              /\ gpc' = "finished" /\ gerr' = gerr
              /\ out' = out /\ requests' = requests ]_vars

\* C28 witness: the second page fetch timed out after a first page of two
\* items, and a later pull found the sequence ended
C28_Witness ==
    /\ gpc = "finished"
    /\ gerr = "AsaasTimeoutError"
    /\ Len(got) = 1
    /\ out = <<"cus_1", "cus_2">>
    /\ requests = 2
    /\ stops = 1

(* ================== claims about the page parameters ==================== *)
\* what the caller passed besides offset and limit
CallerRest == IF params.is_none THEN <<>> ELSE params.q.rest

\* C29: every page request carries paginate's own offset and limit, also
\* when the caller's params have those keys, and every other caller
\* parameter unchanged; the caller's params are never modified.
C29_OwnPagingValues ==
    [][ /\ (Iterating /\ Iterating') => (params' = params /\ limit' = limit)
        /\ (Iterating' /\ requests' = requests + 1) =>
              /\ sent'.offset = offset'
              /\ sent'.limit = limit'
              /\ sent'.rest = CallerRest ]_vars

\* C29 witness: a second page request went out with offset 2 and limit 3
\* although the caller's params said offset 7 and limit 9
C29_Witness ==
    /\ Iterating
    /\ ~params.is_none
    /\ params.q.offset = 7 /\ params.q.limit = 9
    /\ requests = 2
    /\ sent = Query(2, 3, [name |-> "str:John"])

====
